---------------------------- MODULE Spec2Model ----------------------------
(***************************************************************************)
(* A model of librustpkg/package_source.rs: the prefix iterator of a       *)
(* package path (Prefixes), the search for the sources of a package        *)
(* (PkgSrc::new), the fetch of a remote package into the build directory   *)
(* (PkgSrc::fetch_git), the inference of the crates of a package           *)
(* (PkgSrc::find_crates_with_filter) and their build through the workcache *)
(* (PkgSrc::build, PkgSrc::build_crates).                                  *)
(*                                                                         *)
(* A Path is the sequence of its components; an absolute path starts with  *)
(* the component "/".  A string is a sequence of tokens, "/" being the     *)
(* separator, so that connect("/") and Path::new are two functions and not *)
(* the identity.                                                           *)
(***************************************************************************)
EXTENDS Naturals, Sequences, FiniteSets, TLC

VARIABLES
    \* the Prefixes iterator under test
    origPath,      \* the path prefixes() was called on
    components,    \* Prefixes.components
    remaining,     \* Prefixes.remaining
    yielded,       \* the pairs next() has returned so far, in order
    exhausted,     \* next() has returned None
    \* the file system and the last call of PkgSrc::new or PkgSrc::fetch_git
    args,          \* the arguments of the calls of the behaviour
    fs,            \* directories, crate files and git checkouts on disk
    res,           \* the last call: its arguments, what it returned, its trace
    \* a PkgSrc and the methods called on it
    self,          \* the PkgSrc
    env,           \* what the methods are handed and what they find on disk
    run            \* the last method called: how it ended, what it did

pfxVars == <<origPath, components, remaining, yielded, exhausted>>
srcVars == <<args, fs, res>>
objVars == <<self, env, run>>
vars == <<pfxVars, srcVars, objVars>>

(***************************************************************************)
(* Bounds                                                                  *)
(***************************************************************************)
\* the longest path handed to prefixes()
MaxSegs == 4

\* the segment names paths are made of
Names == {"a", "b", "c"}

\* the most directories the workspace holds before the call
MaxDirs == 2

\* the longest package path a package is fetched for
MaxDepth == 5

\* the most entries the walk of the start directory yields
MaxFiles == 3

\* the most calls of find_crates_with_filter on one PkgSrc
MaxCalls == 2

\* the most calls of build on one PkgSrc
MaxBuilds == 2

(***************************************************************************)
(* Sequences, strings and paths                                            *)
(***************************************************************************)
Last(s) == s[Len(s)]
Front(s) == SubSeq(s, 1, Len(s) - 1)

\* every sequence of at most n elements of S
SeqsUpTo(S, n) == UNION {[1..k -> S] : k \in 0..n}

\* ~[~str].connect(sep): the strings of v with sep between them
RECURSIVE connect(_, _)
connect(v, sep) ==
    IF Len(v) = 0 THEN <<>>
    ELSE IF Len(v) = 1 THEN <<v[1]>>
    ELSE <<v[1], sep>> \o connect(Tail(v), sep)

\* the components a string names: what stands between the separators, the
\* empty and the "." ones dropped
RECURSIVE split(_)
split(str) ==
    IF Len(str) = 0 THEN <<>>
    ELSE IF str[1] \in {"/", "."} THEN split(Tail(str))
    ELSE <<str[1]>> \o split(Tail(str))

\* Path::new(str): the normalized path; a leading separator makes it absolute
PathNew(str) ==
    IF Len(str) > 0 /\ str[1] = "/" THEN <<"/">> \o split(str) ELSE split(str)

is_absolute(p) == Len(p) > 0 /\ p[1] = "/"

\* Path::components(): the components after the root
path_components(p) == IF is_absolute(p) THEN Tail(p) ELSE p

\* Path::display(): the string of a path
display(p) ==
    IF is_absolute(p) THEN <<"/">> \o connect(Tail(p), "/")
    ELSE IF Len(p) = 0 THEN <<".">>
    ELSE connect(p, "/")

\* Path::join / Path::push: an absolute argument replaces the path
join(p, q) == IF is_absolute(q) THEN q ELSE p \o q

\* Path::pop: drop the last component, if there is one
pop(p) == IF Len(path_components(p)) = 0 THEN p ELSE Front(p)

\* Path::dir_path: the path without its last component
dir_path(p) == pop(p)

\* p is d or an ancestor directory of d
IsPrefix(p, d) == Len(p) <= Len(d) /\ SubSeq(d, 1, Len(p)) = p

(***************************************************************************)
(* Package identifiers                                                     *)
(***************************************************************************)
\* a CrateId: its path and its version, "" standing for no version
CrateId(path, version) == [path |-> path, version |-> version]

NoId == CrateId(<<>>, "")

\* CrateId::version_or_default
version_or_default(id) == IF id.version = "" THEN "0.0" ELSE id.version

\* CrateId::short_name_with_version: <short-name>-<version>
short_name_with_version(id) ==
    Last(id.path) \o "-" \o version_or_default(id)

\* from_str of a path with neither a name nor a version after it
from_str(str) == CrateId(PathNew(str), "")

\* versionize: the path with -<version> added to its last component
versionize(path, id) ==
    Front(path) \o <<Last(path) \o "-" \o version_or_default(id)>>

(***************************************************************************)
(* The workspace layout and the file system                                *)
(***************************************************************************)
\* the target triple of the build directory
Target == "x86_64"

\* target_build_dir: <workspace>/build/<target>
target_build_dir(workspace) == workspace \o <<"build", Target>>

\* os::getcwd()
Cwd == <<"/", "cwd">>

\* default_workspace()
DefaultWorkspace == <<"/", "home">>

\* the scratch directory safe_git_clone hands out to clone into
CloneTarget == <<"/", "tmp", "rustpkg_temp">>

\* Path::is_dir: a directory on disk, or an ancestor of one
is_dir(f, p) == \E d \in f.dirs : IsPrefix(p, d)

\* dir_has_crate_file
dir_has_crate_file(f, d) == d \in f.crates

\* the directory holds something: a rename onto it cannot succeed
NonEmpty(f, d) ==
    \/ d \in f.crates
    \/ \E r \in f.repos : r[1] = d
    \/ \E e \in f.dirs : IsPrefix(d, e) /\ e # d

\* Path::is_ancestor_of, as PkgSrc::new needs it: the directory ends with
\* the components of the path
is_ancestor_of(d, path) ==
    /\ Len(path) <= Len(path_components(d))
    /\ SubSeq(d, Len(d) - Len(path) + 1, Len(d)) = path

(***************************************************************************)
(* Values PkgSrc::new and PkgSrc::fetch_git return                         *)
(***************************************************************************)
None == <<>>
Some(x) == <<x>>

PkgSrc(source, build_in_dest, destination, start, id) ==
    [source_workspace      |-> source,
     build_in_destination  |-> build_in_dest,
     destination_workspace |-> destination,
     start_dir             |-> start,
     id                    |-> id,
     libs |-> <<>>, mains |-> <<>>, tests |-> <<>>, benchs |-> <<>>]

NoPkgSrc == PkgSrc(<<>>, FALSE, <<>>, <<>>, NoId)

\* one step of a call, as its trace records it
Ev(op, arg, ok) == [op |-> op, arg |-> arg, ok |-> ok]

\* no call yet
NoRes ==
    [op |-> "none", id |-> NoId, hack |-> FALSE, local |-> <<>>,
     kind |-> "none", ps |-> NoPkgSrc, ret |-> None, via |-> "none",
     leaf |-> "none", inner |-> NoPkgSrc, suffix |-> <<>>,
     tried |-> <<>>, log |-> <<>>, again |-> FALSE, prev |-> None]

NoFs == [dirs |-> {}, crates |-> {}, repos |-> {}]

\* nothing handed to a method of a PkgSrc, nothing on disk: the walk of the
\* start directory, the filter, and the <<file, attribute>> pairs that have
\* changed since the start
NoEnv == [tree |-> <<>>, filter |-> {}, world |-> {}]

\* a call of build: how it ended, its arguments, what it did, the map it
\* returned, and the workcache database and the files as it found them
NoBuild ==
    [kind |-> "none", cfgs |-> <<>>, inputs |-> <<>>, log |-> <<>>,
     deps |-> {}, db |-> {}, world |-> {}]

\* no method called yet: the last method and how it ended, the calls made,
\* the workcache database, what the last getter returned, whether a file
\* has changed since the last build, and the last two builds
NoRun ==
    [op |-> "none", kind |-> "none", raised |-> NoId, calls |-> 0,
     builds |-> 0, db |-> {}, ret |-> <<>>, touched |-> FALSE,
     last |-> NoBuild, before |-> NoBuild]

\* the arguments of a call: PkgSrc::new takes id and use_rust_path_hack (the
\* two workspaces are fixed), PkgSrc::fetch_git takes local and id
Args(id, hack, local) == [id |-> id, hack |-> hack, local |-> local]

NoArgs == Args(NoId, FALSE, <<>>)

(***************************************************************************)
(* Prefixes                                                                *)
(***************************************************************************)
\* fn prefixes(p): the iterator's first state
prefixes(p) == [components |-> path_components(p), remaining |-> <<>>]

\* the new Prefixes.remaining: the popped component goes to the front
PrefixesUnshiftMutant(rem, last) == Append(rem, last)
PrefixesUnshift(rem, last) == <<last>> \o rem

\* the pair next() builds from the two vectors
PrefixesPair(comps, rem) ==
    <<PathNew(connect(comps, "/")), PathNew(connect(rem, "/"))>>

\* the test that ends the iteration
PrefixesDoneMutant(comps) == Len(comps) < 1
PrefixesDone(comps) == Len(comps) <= 1

\* Prefixes::next
PrefixesNext ==
    /\ ~exhausted
    /\ IF PrefixesDone(components)
       THEN /\ exhausted' = TRUE
            /\ UNCHANGED <<origPath, components, remaining, yielded>>
            /\ UNCHANGED <<srcVars, objVars>>
       ELSE LET last == Last(components)
                comps == Front(components)
                rem == PrefixesUnshift(remaining, last)
            IN  /\ components' = comps
                /\ remaining' = rem
                /\ yielded' = Append(yielded, PrefixesPair(comps, rem))
                /\ UNCHANGED <<origPath, exhausted>>
                /\ UNCHANGED <<srcVars, objVars>>

\* an iterator over an identifier path of at most MaxSegs segments
InitPrefixes ==
    /\ origPath \in SeqsUpTo(Names, MaxSegs)
    /\ components = prefixes(origPath).components
    /\ remaining = prefixes(origPath).remaining
    /\ yielded = <<>>
    /\ exhausted = FALSE
    /\ args = NoArgs
    /\ fs = NoFs
    /\ res = NoRes
    /\ self = NoPkgSrc
    /\ env = NoEnv
    /\ run = NoRun

NextPrefixes == PrefixesNext

SpecPrefixes == InitPrefixes /\ [][NextPrefixes]_vars

(***************************************************************************)
(* Claims about Prefixes                                                   *)
(***************************************************************************)
\* C1: a path of N segments yields exactly N-1 pairs when N >= 2 and none
\* when N <= 1; for every yielded pair i, prefix_i followed by "/" and
\* suffix_i is the original path, the segments keep their left-to-right
\* order and prefix_i has N-i segments, one fewer than the pair before it.
C1_Decomposition ==
    LET N == Len(origPath) IN
    /\ exhausted => Len(yielded) = (IF N >= 2 THEN N - 1 ELSE 0)
    /\ \A i \in 1..Len(yielded) :
         /\ display(yielded[i][1]) \o <<"/">> \o display(yielded[i][2])
              = display(origPath)
         /\ yielded[i][1] = SubSeq(origPath, 1, N - i)
         /\ yielded[i][2] = SubSeq(origPath, N - i + 1, N)

\* a path of four segments, not all alike, has been iterated to the end
C1_Witness ==
    /\ exhausted
    /\ Len(origPath) = 4
    /\ Len(yielded) = 3
    /\ origPath[3] # origPath[4]

\* C2 as stated: the first pair is the full path with an empty suffix.
C2_StartsFromFullPath ==
    Len(yielded) >= 1 => yielded[1] = <<origPath, <<>>>>

\* C2, amended: the first pair is the path without its last segment, paired
\* with that last segment as the suffix; each later pair's prefix is the
\* one before it without its last segment, and the last pair's prefix has
\* exactly one segment.
C2_StartsFromParent ==
    /\ Len(yielded) >= 1 =>
         yielded[1] = <<Front(origPath), <<Last(origPath)>>>>
    /\ \A i \in 2..Len(yielded) : yielded[i][1] = Front(yielded[i-1][1])
    /\ \A i \in 1..Len(yielded) : Len(yielded[i][1]) >= 1
    /\ (exhausted /\ Len(yielded) >= 1) => Len(Last(yielded)[1]) = 1

\* a path of three segments has been iterated to the end
C2_Witness ==
    /\ exhausted
    /\ Len(origPath) = 3
    /\ Len(yielded) = 2

(***************************************************************************)
(* PkgSrc::fetch_git                                                       *)
(***************************************************************************)
\* what the world does to one call of fetch_git that gets to clone: the
\* clone fails, the ancestors cannot be made, the rename fails, or all
\* succeed and the repository has, or has not, a crate file at its root
FetchOutcomesMutant == {}
FetchOutcomes == {"clone_fail", "mkdir_fail", "rename_fail", "ok", "ok_crate"}

\* safe_git_clone: CheckedOutSources when the target already holds a
\* checkout of the package at its version, else a directory to clone into
safe_git_clone(f, id, local) ==
    IF <<local, id>> \in f.repos THEN "CheckedOutSources" ELSE "DirToUse"

\* path.components().nth(1).is_none(): the path is no URL fragment
NotAUrlMutant(path) == Len(path_components(path)) < 1
NotAUrl(path) == Len(path_components(path)) < 2

\* let moved = make_dir_rwx_recursive(..) && rename(..).is_ok()
MovedMutant(made, renamed) == made
Moved(made, renamed) == made /\ renamed

\* the directory fetch_git returns once the clone has been moved
AdoptedDirMutant(local, clone_target) == clone_target
AdoptedDir(local, clone_target) == local

\* the file system once clone_target has been renamed to local
Renamed(f, local, id, o) ==
    [dirs   |-> f.dirs \cup {local},
     crates |-> IF o = "ok_crate" THEN f.crates \cup {local} ELSE f.crates,
     repos  |-> f.repos \cup {<<local, id>>}]

\* fetch_git(local, crateid) under outcome o: what it returns, the file
\* system it leaves and the steps it took
fetch_git(f, local, id, o) ==
    LET path == PathNew(display(id.path))
        call == Ev("fetch_git", local, TRUE)
        none == Ev("fetch_ret", local, FALSE)
        some == Ev("fetch_ret", local, TRUE)
    IN
    IF safe_git_clone(f, id, local) = "CheckedOutSources"
    THEN [ret |-> Some(local), fs |-> f,
          log |-> <<call, Ev("make_read_only", local, TRUE), some>>]
    ELSE IF NotAUrl(path)
    THEN [ret |-> None, fs |-> f, log |-> <<call, none>>]
    ELSE
    LET url == <<"https://">> \o display(path)
        failed == (o = "clone_fail")
    IN
    IF failed
    THEN [ret |-> None, fs |-> f,
          log |-> <<call, Ev("git_clone_url", url, FALSE), none>>]
    ELSE
    LET made == (o # "mkdir_fail")
        f1 == IF made THEN [f EXCEPT !.dirs = @ \cup {dir_path(local)}] ELSE f
        renamed == made /\ o \in {"ok", "ok_crate"} /\ ~NonEmpty(f, local)
        f2 == IF renamed THEN Renamed(f1, local, id, o) ELSE f1
        moved == Moved(made, renamed)
        steps == <<call, Ev("git_clone_url", url, TRUE),
                   Ev("make_dir_rwx_recursive", dir_path(local), made)>>
                 \o (IF made THEN <<Ev("rename", local, renamed)>> ELSE <<>>)
    IN
    IF moved
    THEN [ret |-> Some(AdoptedDir(local, CloneTarget)), fs |-> f2,
          log |-> Append(steps, some)]
    ELSE [ret |-> None, fs |-> f2, log |-> Append(steps, none)]

(***************************************************************************)
(* PkgSrc::new                                                             *)
(***************************************************************************)
\* the lookup of the RUST_PATH hack finds this directory, or nothing
HackDir == <<"/", "rust_path">>

\* to_try: the directories PkgSrc::new looks for the sources in, in order
Candidates(source_workspace, id, use_rust_path_hack) ==
    LET path == PathNew(display(id.path))
        build_dir == target_build_dir(source_workspace)
    IN  IF use_rust_path_hack THEN <<source_workspace>>
        ELSE <<join(join(source_workspace \o <<"src">>, dir_path(path)),
                    <<short_name_with_version(id)>>),
               join(source_workspace \o <<"src">>, path),
               join(join(build_dir \o <<"src">>, dir_path(path)),
                    <<short_name_with_version(id)>>),
               join(build_dir \o <<"src">>, path)>>

\* output_names: the directories a fetch may put the sources in, in order
OutputNamesMutant(source_workspace, id, use_rust_path_hack) ==
    <<join(join(target_build_dir(source_workspace) \o <<"src">>,
                dir_path(PathNew(display(id.path)))),
           <<short_name_with_version(id)>>),
      join(target_build_dir(source_workspace) \o <<"src">>,
           PathNew(display(id.path)))>>
OutputNames(source_workspace, id, use_rust_path_hack) ==
    LET path == PathNew(display(id.path))
        build_dir == target_build_dir(source_workspace)
    IN  IF use_rust_path_hack THEN <<>>
        ELSE <<join(join(build_dir \o <<"src">>, dir_path(path)),
                    <<short_name_with_version(id)>>),
               join(build_dir \o <<"src">>, path)>>

\* to_try.iter().find(|d| d.is_dir() && dir_has_crate_file(d)): the index of
\* the first directory that holds a package, 0 when none does
FindCandidateMutant(f, to_try) ==
    LET ok == {i \in 1..Len(to_try) :
                 is_dir(f, to_try[i]) /\ dir_has_crate_file(f, to_try[i])}
    IN  IF ok = {} THEN 0 ELSE CHOOSE i \in ok : \A j \in ok : j <= i
FindCandidate(f, to_try) ==
    LET ok == {i \in 1..Len(to_try) :
                 is_dir(f, to_try[i]) /\ dir_has_crate_file(f, to_try[i])}
    IN  IF ok = {} THEN 0 ELSE CHOOSE i \in ok : \A j \in ok : i <= j

\* every pair the iterator yields from this state on, in order
RECURSIVE PrefixesAll(_, _)
PrefixesAll(comps, rem) ==
    IF PrefixesDone(comps) THEN <<>>
    ELSE LET c == Front(comps)
             r == PrefixesUnshift(rem, Last(comps))
         IN  <<PrefixesPair(c, r)>> \o PrefixesAll(c, r)

\* the directory whose existence makes PkgSrc::new resolve the prefix
PrefixDir(build_dir, crate_id) == join(build_dir, crate_id.path)

\* for w in output_names.iter(): fetch into each directory in turn, from
\* the i-th on, until one fetch returns a directory
FetchLoopStopsMutant(found) == FALSE
FetchLoopStops(found) == found

\* the outcomes the world can give one call of fetch_git: they matter only
\* to a call that gets to clone
FetchWorld(f, local, id) ==
    IF \/ safe_git_clone(f, id, local) = "CheckedOutSources"
       \/ NotAUrl(PathNew(display(id.path)))
    THEN {"ok"}
    ELSE FetchOutcomes

\* every way the loop can go from the i-th directory on: what ok_d is in
\* the end, the file system left and the steps taken
RECURSIVE FetchLoop(_, _, _, _)
FetchLoop(f, output_names, id, i) ==
    IF i > Len(output_names) THEN {[ok_d |-> None, fs |-> f, log |-> <<>>]}
    ELSE UNION {
           LET r == fetch_git(f, output_names[i], id, o) IN
           IF FetchLoopStops(r.ret # None)
           THEN {[ok_d |-> r.ret, fs |-> r.fs, log |-> r.log]}
           ELSE {[ok_d |-> IF rest.ok_d # None THEN rest.ok_d ELSE r.ret,
                  fs |-> rest.fs, log |-> r.log \o rest.log] :
                    rest \in FetchLoop(r.fs, output_names, id, i + 1)}
           : o \in FetchWorld(f, output_names[i], id)}

RECURSIVE PopN(_, _)
PopN(p, n) == IF n = 0 THEN p ELSE PopN(pop(p), n - 1)

\* the components popped off the fetched directory to get the source
\* workspace: the package path, and src
StripCountMutant(path) == Len(path_components(path))
StripCount(path) == Len(path_components(path)) + 1

\* the two workspaces after a fetch into d
FetchedWorkspaces(source_workspace, destination_workspace, d, id) ==
    LET path == PathNew(display(id.path)) IN
    IF is_ancestor_of(d, path) \/ is_ancestor_of(d, versionize(path, id))
    THEN LET source == PopN(d, StripCount(path)) IN
         [source |-> source, destination |-> pop(pop(source))]
    ELSE [source |-> source_workspace, destination |-> destination_workspace]

\* cond.raise with no handler installed: the call fails
Raise(r, f, kind, log) ==
    [r |-> [r EXCEPT !.kind = kind, !.log = log], fs |-> f]

\* the call returns the PkgSrc ps
Return(r, f, ps, via, leaf, log) ==
    [r |-> [r EXCEPT !.kind = "ok", !.ps = ps, !.via = via, !.leaf = leaf,
                     !.log = log],
     fs |-> f]

\* the flag of the PkgSrc the nested-prefix branch returns
NestedFlag(build_in_destination, ps) == build_in_destination

\* the id of the PkgSrc the nested-prefix branch returns
NestedId(id, ps) == ps.id

\* if !dir.is_dir() { cond.raise(..) }, then the PkgSrc
Finish(r, f, source, destination, build_in_destination, dir, id, via, log) ==
    IF ~is_dir(f, dir)
    THEN Raise(r, f, "non-directory", log)
    ELSE Return(r, f, PkgSrc(source, build_in_destination, destination, dir, id),
                via, via, log)

\* if dir_has_crate_file(&cwd): the sources are in the working directory
CwdHasSourcesMutant(f) == FALSE
CwdHasSources(f) == dir_has_crate_file(f, Cwd)

\* what PkgSrc::new does once no candidate and no prefix has worked and the
\* fetch loop has ended as `fetched` says: every way it can go on
AfterFetch(r0, source_workspace, destination_workspace, use_rust_path_hack, id, fetched) ==
    LET build_in_destination == use_rust_path_hack IN
    IF fetched.ok_d # None
    THEN LET d == fetched.ok_d[1]
             ws == FetchedWorkspaces(source_workspace, destination_workspace,
                                     d, id)
         IN  {Finish(r0, fetched.fs, ws.source, ws.destination, TRUE, d, id,
                     "fetch", fetched.log)}
    ELSE
    LET has == CwdHasSources(fetched.fs)
        log == Append(fetched.log, Ev("getcwd", Cwd, has))
    IN
    IF has
    THEN {Return(r0, fetched.fs,
                 PkgSrc(Cwd, TRUE, DefaultWorkspace, Cwd, id),
                 "cwd", "cwd", log)}
    ELSE IF use_rust_path_hack
    THEN {IF found # None
          THEN Finish(r0, fetched.fs, source_workspace, destination_workspace,
                      build_in_destination, found[1], id, "rust_path_hack",
                      Append(log, Ev("find_dir_using_rust_path_hack",
                                     found[1], TRUE)))
          ELSE Raise(r0, fetched.fs, "not-found",
                     Append(log, Ev("find_dir_using_rust_path_hack",
                                    <<>>, FALSE)))
            : found \in {None, Some(HackDir)}}
    ELSE {Raise(r0, fetched.fs, "not-found", log)}

\* PkgSrc::new(source_workspace, destination_workspace, use_rust_path_hack,
\* id) on the file system f: every way the call can end, each with the
\* file system it leaves
RECURSIVE PkgSrcNew(_, _, _, _, _)
PkgSrcNew(f, source_workspace, destination_workspace, use_rust_path_hack, id) ==
    LET build_dir == target_build_dir(source_workspace)
        to_try == Candidates(source_workspace, id, use_rust_path_hack)
        output_names == OutputNames(source_workspace, id, use_rust_path_hack)
        found == FindCandidate(f, to_try)
        build_in_destination == use_rust_path_hack
        r0 == [NoRes EXCEPT !.op = "new", !.id = id,
                            !.hack = use_rust_path_hack, !.tried = to_try]
        pairs == PrefixesAll(prefixes(PathNew(display(id.path))).components,
                             prefixes(PathNew(display(id.path))).remaining)
        hits == {i \in 1..Len(pairs) :
                   is_dir(f, PrefixDir(build_dir, from_str(display(pairs[i][1]))))}
    IN
    IF found # 0
    THEN {Finish(r0, f, source_workspace, destination_workspace,
                 build_in_destination, to_try[found], id, "candidate", <<>>)}
    ELSE IF hits # {}
    THEN LET i == CHOOSE i \in hits : \A j \in hits : i <= j
             crate_id == from_str(display(pairs[i][1]))
             suffix == pairs[i][2]
             call == <<Ev("PkgSrc::new", crate_id.path, TRUE)>>
         IN  {IF in.r.kind # "ok"
              THEN Raise(r0, in.fs, in.r.kind, call \o in.r.log)
              ELSE Return([r0 EXCEPT !.inner = in.r.ps, !.suffix = suffix],
                          in.fs,
                          PkgSrc(in.r.ps.source_workspace,
                                 NestedFlag(build_in_destination, in.r.ps),
                                 in.r.ps.destination_workspace,
                                 join(in.r.ps.start_dir, suffix),
                                 NestedId(id, in.r.ps)),
                          "nested", in.r.leaf, call \o in.r.log)
                : in \in PkgSrcNew(f, source_workspace, destination_workspace,
                                   use_rust_path_hack, crate_id)}
    ELSE UNION {AfterFetch(r0, source_workspace, destination_workspace,
                           use_rust_path_hack, id, fetched)
                  : fetched \in FetchLoop(f, output_names, id, 1)}

(***************************************************************************)
(* The calls and the states they start from                                *)
(***************************************************************************)
\* the package paths are a, a/b and a/b/c
Chain == <<"a", "b", "c">>

\* the versions a package identifier carries: none, or one
Versions == {"", "1.0"}

\* the package identifiers handed to PkgSrc::new and PkgSrc::fetch_git
Ids == {CrateId(SubSeq(Chain, 1, n), v) : n \in 1..Len(Chain), v \in Versions}

\* the source workspace and the destination workspace of the calls
Workspace == <<"/", "ws">>
Destination == <<"/", "dst">>

Range(s) == {s[i] : i \in 1..Len(s)}

\* the directories a fetch of id may fill
StagingDirs(id) == Range(OutputNames(Workspace, id, FALSE))

\* the directories whose presence a call of PkgSrc::new for id can tell:
\* its candidates, the directories of its prefixes, what the resolution of
\* a prefix can tell and, with the RUST_PATH hack, what the lookup finds
RECURSIVE NewUniverse(_, _)
NewUniverse(id, hack) ==
    LET pairs == PrefixesAll(prefixes(id.path).components,
                             prefixes(id.path).remaining)
        ids == {CrateId(pairs[i][1], "") : i \in 1..Len(pairs)}
    IN  Range(Candidates(Workspace, id, hack))
        \cup (IF hack THEN {HackDir} ELSE {})
        \cup {PrefixDir(target_build_dir(Workspace), p) : p \in ids}
        \cup UNION {NewUniverse(p, hack) : p \in ids}

\* the packages a call of PkgSrc::new for id may fetch: id, and the
\* prefixes of its path
FetchedIds(id) ==
    {id} \cup {from_str(display(SubSeq(id.path, 1, n)))
               : n \in 1..(Len(id.path) - 1)}

\* the checkouts of the packages ids a set of directories may hold: a
\* staging directory of a package may hold that package
Checkouts(dirs, ids) ==
    {r \in dirs \X ids : r[1] \in StagingDirs(r[2])}

\* the file systems with at most MaxDirs directories of the universe U:
\* some hold a crate file, some staging directories hold a checkout of one
\* of the packages ids, and the working directory may hold a crate file
InitialFs(U, ids) ==
    UNION {
      UNION {
        {[dirs |-> ds \cup {Cwd}, crates |-> cs, repos |-> rs] :
            rs \in {x \in SUBSET Checkouts(ds, ids) :
                      \A r, q \in x : r[1] = q[1] => r = q}}
        : cs \in SUBSET (ds \cup {Cwd})}
      : ds \in {x \in SUBSET U : Cardinality(x) <= MaxDirs}}

\* the call of PkgSrc::new
Resolve ==
    /\ res.op = "none"
    /\ \E out \in PkgSrcNew(fs, Workspace, Destination, args.hack, args.id) :
          /\ fs' = out.fs
          /\ res' = out.r
    /\ UNCHANGED <<args, pfxVars, objVars>>

\* a call of PkgSrc::fetch_git(local, id); the call keeps what the call
\* before it returned, if there was one
Fetch ==
    /\ \E o \in FetchWorld(fs, args.local, args.id) :
          LET out == fetch_git(fs, args.local, args.id, o) IN
          /\ fs' = out.fs
          /\ res' = [NoRes EXCEPT !.op = "fetch_git", !.id = args.id,
                                  !.local = args.local, !.kind = "ok",
                                  !.ret = out.ret, !.log = out.log,
                                  !.again = (res.op = "fetch_git"),
                                  !.prev = res.ret]
    /\ UNCHANGED <<args, pfxVars, objVars>>

\* one call of PkgSrc::new, for any package and either mode, on any file
\* system of the directories the call can tell
Init ==
    /\ args \in {Args(id, hack, <<>>) : id \in Ids, hack \in BOOLEAN}
    /\ fs \in InitialFs(NewUniverse(args.id, args.hack),
                       FetchedIds(args.id))
    /\ res = NoRes
    /\ origPath = <<>>
    /\ components = <<>>
    /\ remaining = <<>>
    /\ yielded = <<>>
    /\ exhausted = TRUE
    /\ self = NoPkgSrc
    /\ env = NoEnv
    /\ run = NoRun

Next == Resolve

Spec == Init /\ [][Next]_vars

\* the directories a fetch into local can tell: local, and a directory in it
FetchUniverse(local) == {local, local \o <<"src">>}

\* calls of PkgSrc::fetch_git for one package and one of its staging
\* directories
InitFetch ==
    /\ args \in UNION {{Args(id, FALSE, local) : local \in StagingDirs(id)}
                         : id \in Ids}
    /\ fs \in {f \in InitialFs(FetchUniverse(args.local), Ids) :
                 Cwd \notin f.crates}
    /\ res = NoRes
    /\ origPath = <<>>
    /\ components = <<>>
    /\ remaining = <<>>
    /\ yielded = <<>>
    /\ exhausted = TRUE
    /\ self = NoPkgSrc
    /\ env = NoEnv
    /\ run = NoRun

\* any number of calls of PkgSrc::fetch_git, one after the other
NextFetch == Fetch

SpecFetch == InitFetch /\ [][NextFetch]_vars

\* the package paths of up to MaxDepth segments: a, a/b, .. a/b/c/d/e
DeepChain == <<"a", "b", "c", "d", "e", "f", "g">>

DeepIds ==
    {CrateId(SubSeq(DeepChain, 1, n), v) :
        n \in {k \in 1..Len(DeepChain) : k <= MaxDepth}, v \in Versions}

\* one call of PkgSrc::new without the RUST_PATH hack for a package whose
\* staging directories are the only directories there may be
InitDeep ==
    /\ args \in {Args(id, FALSE, <<>>) : id \in DeepIds}
    /\ fs \in InitialFs(StagingDirs(args.id), {args.id})
    /\ res = NoRes
    /\ origPath = <<>>
    /\ components = <<>>
    /\ remaining = <<>>
    /\ yielded = <<>>
    /\ exhausted = TRUE
    /\ self = NoPkgSrc
    /\ env = NoEnv
    /\ run = NoRun

NextDeep == Resolve

SpecDeep == InitDeep /\ [][NextDeep]_vars

(***************************************************************************)
(* Claims about PkgSrc::new and PkgSrc::fetch_git                          *)
(***************************************************************************)
\* the positions of the steps named op in a trace
Steps(log, op) == {i \in 1..Len(log) : log[i].op = op}

\* the layout of a workspace, written out: where the sources of id are
\* looked for under root/src and under root/build/<target>/src
VersionedDir(base, id) ==
    base \o Front(id.path)
         \o <<Last(id.path) \o "-" \o (IF id.version = "" THEN "0.0" ELSE id.version)>>
PlainDir(base, id) == base \o id.path
SrcRoot == <<"/", "ws", "src">>
StagingRoot == <<"/", "ws", "build", "x86_64", "src">>
LayoutCandidates(id) ==
    <<VersionedDir(SrcRoot, id), PlainDir(SrcRoot, id),
      VersionedDir(StagingRoot, id), PlainDir(StagingRoot, id)>>

\* a directory that holds a package, in the file system f
ValidPackageDir(f, d) == is_dir(f, d) /\ dir_has_crate_file(f, d)

\* the package PkgSrc::new resolved last: the prefix of the innermost
\* recursive call, or the package of the call itself
LeafId(r) ==
    LET calls == Steps(r.log, "PkgSrc::new") IN
    IF calls = {} THEN r.id
    ELSE CrateId(r.log[CHOOSE i \in calls : \A j \in calls : j <= i].arg, "")

\* C3: without the override the candidates are, in this order,
\* src/<dir>/<name>-<version>, src/<path>, build/<target>/src/<dir>/<name>-<version>
\* and build/<target>/src/<path>; with the override the only candidate is the
\* source workspace.  When some candidate is a directory with a crate file
\* before the call, the call returns the first such candidate as start_dir
\* and does nothing else: no prefix is resolved, nothing is fetched, neither
\* the working directory nor the override lookup is consulted.
C3_Step ==
    res'.op = "new" =>
      LET expected == IF res'.hack THEN <<Workspace>>
                      ELSE LayoutCandidates(res'.id)
          valid == {i \in 1..Len(expected) : ValidPackageDir(fs, expected[i])}
      IN  /\ res'.tried = expected
          /\ valid # {} =>
               /\ res'.kind = "ok"
               /\ res'.via = "candidate"
               /\ \E i \in valid :
                    /\ \A j \in valid : i <= j
                    /\ res'.ps.start_dir = expected[i]
               /\ res'.log = <<>>
               /\ fs' = fs
C3_FirstCandidate == [][C3_Step]_vars

\* two candidates hold a package and the call returned the third of the
\* four, the fourth being the other one
C3_Witness ==
    /\ res.op = "new" /\ ~res.hack /\ res.via = "candidate"
    /\ res.ps.start_dir = res.tried[3]
    /\ ValidPackageDir(fs, res.tried[4])

\* C4: the start_dir of every PkgSrc that PkgSrc::new returns is a
\* directory, whichever branch returned it.
C4_StartDirIsDir ==
    (res.op = "new" /\ res.kind = "ok") => is_dir(fs, res.ps.start_dir)

\* C5: build_in_destination of a returned PkgSrc is true when the sources
\* were obtained by a fetch or by the override lookup
\* (find_dir_using_rust_path_hack), and false in every other case.
C5_FlagIffFetchedOrOverride ==
    (res.op = "new" /\ res.kind = "ok") =>
      (res.ps.build_in_destination
         <=> res.leaf \in {"fetch", "rust_path_hack"})

\* C6: a PkgSrc returned through the resolution of a prefix has the flag
\* and the two workspaces of the PkgSrc the recursive call returned, and its
\* start_dir is that one's start_dir with the suffix appended.
C6_NestedInherits ==
    (res.op = "new" /\ res.kind = "ok" /\ res.via = "nested") =>
      /\ res.ps.build_in_destination = res.inner.build_in_destination
      /\ res.ps.source_workspace = res.inner.source_workspace
      /\ res.ps.destination_workspace = res.inner.destination_workspace
      /\ res.ps.start_dir = res.inner.start_dir \o res.suffix

\* C7: when no candidate holds a package and build/<target>/src/<prefix> is
\* a directory with a crate file for some strict prefix of the package path,
\* the call resolves the prefix and returns its start_dir with the suffix
\* appended, and fetches nothing.
C7_Step ==
    LET id == res'.id
        direct == IF res'.hack THEN <<Workspace>> ELSE LayoutCandidates(id)
        staged == {n \in 1..(Len(id.path) - 1) :
                     ValidPackageDir(fs, StagingRoot \o SubSeq(id.path, 1, n))}
    IN  ( /\ res'.op = "new"
          /\ \A i \in 1..Len(direct) : ~ValidPackageDir(fs, direct[i])
          /\ staged # {} )
        => /\ res'.kind = "ok"
           /\ res'.via = "nested"
           /\ res'.ps.start_dir = res'.inner.start_dir \o res'.suffix
           /\ Steps(res'.log, "fetch_git") = {}
C7_StagedPrefixResolved == [][C7_Step]_vars

\* C8: a fetch that follows a fetch of the same package into the same
\* directory that returned a directory clones nothing, renames nothing and
\* returns the same directory, the one it was asked to fill.
C8_FetchIdempotent ==
    (res.op = "fetch_git" /\ res.again /\ res.prev # None) =>
      /\ res.ret = res.prev
      /\ res.ret = Some(res.local)
      /\ Steps(res.log, "git_clone_url") = {}
      /\ Steps(res.log, "rename") = {}

\* a fetch of a package with a URL was repeated after it had returned a
\* directory
C8_Witness ==
    /\ res.op = "fetch_git" /\ res.again /\ res.prev # None
    /\ Len(res.id.path) >= 2
    /\ Steps(res.log, "make_read_only") # {}

\* C9: a fetch whose clone succeeds and whose adoption fails (the ancestors
\* cannot be made, or the rename fails) returns nothing and leaves the
\* directory as it was: no checkout of the package, and no checkout,
\* directory or crate file that was not there before.  A fetch makes a
\* directory a checkout only if it returns that directory.
C9_Step ==
    res'.op = "fetch_git" =>
      LET local == res'.local
          log == res'.log
          failed == \E i \in 1..Len(log) :
                      /\ log[i].op \in {"make_dir_rwx_recursive", "rename"}
                      /\ ~log[i].ok
      IN  /\ failed =>
                /\ res'.ret = None
                /\ fs'.repos = fs.repos
                /\ <<local, res'.id>> \notin fs'.repos
                /\ is_dir(fs', local) => is_dir(fs, local)
                /\ dir_has_crate_file(fs', local) => dir_has_crate_file(fs, local)
          /\ \A r \in fs'.repos \ fs.repos :
                r = <<local, res'.id>> /\ res'.ret = Some(local)
C9_AdoptionAllOrNothing == [][C9_Step]_vars

\* the clone succeeded, the rename failed and the fetch returned nothing
C9_Witness ==
    /\ res.op = "fetch_git" /\ res.ret = None
    /\ \E i \in Steps(res.log, "git_clone_url") : res.log[i].ok
    /\ \E i \in Steps(res.log, "rename") : ~res.log[i].ok

\* C10: PkgSrc::new fetches into the staging directories of the package in
\* order, build/<target>/src/<dir>/<name>-<version> first; a clone that
\* fails makes that fetch return nothing and the call goes on, to the next
\* staging directory or, after the last, to the working directory; the
\* first fetch that returns a directory is the last one made.
C10_FetchLoop ==
    res.op = "new" =>
      LET log == res.log
          id == LeafId(res)
          staging == <<VersionedDir(StagingRoot, id), PlainDir(StagingRoot, id)>>
          calls == Steps(log, "fetch_git")
          rets == Steps(log, "fetch_ret")
          nth(i) == Cardinality({j \in calls : j <= i})
      IN  /\ Cardinality(calls) <= Len(staging)
          /\ \A i \in calls : log[i].arg = staging[nth(i)]
          /\ \A i \in Steps(log, "git_clone_url") :
                ~log[i].ok => /\ i + 1 \in rets
                              /\ ~log[i + 1].ok
          /\ \A i \in rets :
                IF log[i].ok
                THEN /\ \A j \in calls : j < i
                     /\ res.kind = "ok" /\ res.leaf = "fetch"
                ELSE /\ i < Len(log)
                     /\ IF nth(i) < Len(staging)
                        THEN /\ log[i + 1].op = "fetch_git"
                             /\ log[i + 1].arg = staging[nth(i) + 1]
                        ELSE log[i + 1].op = "getcwd"

\* the clone into the first staging directory failed, the fetch into the
\* second returned it, and the call returned a PkgSrc that starts there
C10_Witness ==
    /\ res.op = "new" /\ res.kind = "ok" /\ res.via = "fetch"
    /\ \E i \in Steps(res.log, "git_clone_url") :
          /\ ~res.log[i].ok
          /\ \E j \in Steps(res.log, "fetch_ret") : j > i /\ res.log[j].ok
    /\ res.ps.start_dir = PlainDir(StagingRoot, res.id)

C12_Step ==
    res'.op = "new" =>
      \A id \in {LeafId(res')}, log \in {res'.log} :
      \A direct \in {IF res'.hack THEN <<Workspace>> ELSE LayoutCandidates(id)} :
      LET lookups == Steps(log, "find_dir_using_rust_path_hack")
          asked == Steps(log, "getcwd")
          noCandidate ==
            \A i \in 1..Len(direct) : ~ValidPackageDir(fs, direct[i])
          noPrefix ==
            \A n \in 1..(Len(id.path) - 1) :
               ~is_dir(fs, <<"/", "ws", "build", "x86_64">>
                             \o SubSeq(id.path, 1, n))
          noFetch == \A i \in Steps(log, "fetch_ret") : ~log[i].ok
          noCwd == ~dir_has_crate_file(fs, Cwd)
          noLookup == res'.hack => \E i \in lookups : ~log[i].ok
      IN  /\ res'.kind = "not-found"
                <=> (noCandidate /\ noPrefix /\ noFetch /\ noCwd /\ noLookup)
          /\ \A i \in asked :
                log[i].ok => /\ lookups = {}
                             /\ res'.kind = "ok" /\ res'.leaf = "cwd"
                             /\ Steps(log, "PkgSrc::new") = {}
                                  => res'.ps.start_dir = Cwd
          /\ \A i \in lookups : i - 1 \in asked /\ ~log[i - 1].ok
Crate(file) == [file |-> file, flags |-> <<>>, cfgs |-> <<>>]

\* Path::filename_str
filename_str(p) == Last(p)

\* push_crate's assert!(it.peek().is_some()): p has components after the
\* first `prefix` ones
PushCrateAsserts(prefix, p) == Len(path_components(p)) > prefix

\* push_crate(cs, prefix, p): the crate whose file is p without its first
\* `prefix` components, appended
push_crateMutant(cs, prefix, p) ==
    IF cs = <<>> THEN <<Crate(SubSeq(p, prefix + 1, Len(p)))>> ELSE <<>>
push_crate(cs, prefix, p) ==
    LET comps == path_components(p)
        it == SubSeq(comps, prefix + 1, Len(comps))
        sub == join(PathNew(<<".">>), it)
    IN  Append(cs, Crate(sub))

\* Some(filename) if filter(filename): the filter is the set of the names
\* it accepts
FilterAcceptsMutant(filter, name) == TRUE
FilterAccepts(filter, name) == name \in filter

\* maybe_known_crate_set: the list a file of this name goes to
known_crate_set(filter, name) ==
    IF FilterAccepts(filter, name)
    THEN CASE name = "lib.rs" -> "libs"
           [] name = "main.rs" -> "mains"
           [] name = "test.rs" -> "tests"
           [] name = "bench.rs" -> "benchs"
           [] OTHER -> "none"
    ELSE "none"

\* the body of for pth in fs::walk_dir(&self.start_dir), from the i-th
\* entry of the walk on: the PkgSrc in the end, and whether every assert
\* of push_crate held
RECURSIVE WalkDir(_, _, _, _, _)
WalkDir(ps, prefix, tree, filter, i) ==
    IF i > Len(tree) THEN [ps |-> ps, ok |-> TRUE]
    ELSE LET pth == tree[i]
             set == known_crate_set(filter, filename_str(pth))
         IN  IF set = "none" THEN WalkDir(ps, prefix, tree, filter, i + 1)
             ELSE IF ~PushCrateAsserts(prefix, pth) THEN [ps |-> ps, ok |-> FALSE]
             ELSE WalkDir([ps EXCEPT ![set] = push_crate(@, prefix, pth)],
                          prefix, tree, filter, i + 1)

\* crate_sets.iter().all(|crate_set| crate_set.is_empty())
NoCratesMutant(ps) == ps.libs = <<>>
NoCrates(ps) ==
    ps.libs = <<>> /\ ps.mains = <<>> /\ ps.tests = <<>> /\ ps.benchs = <<>>

\* find_crates_with_filter(filter) on ps, the walk yielding tree: the PkgSrc
\* it leaves, how it ends and the id it raises missing_pkg_files with
find_crates_with_filter(ps, tree, filter) ==
    LET prefix == Len(path_components(ps.start_dir))
        walked == WalkDir(ps, prefix, tree, filter, 1)
    IN  IF ~walked.ok
        THEN [self |-> walked.ps, kind |-> "assert", raised |-> NoId]
        ELSE IF NoCrates(walked.ps)
        THEN [self |-> walked.ps, kind |-> "missing_pkg_files",
              raised |-> walked.ps.id]
        ELSE [self |-> walked.ps, kind |-> "ok", raised |-> NoId]

\* the directory the walk starts in and the package found there
StartDir == <<"/", "ws", "src", "a">>
ThePkgSrc == PkgSrc(Workspace, FALSE, Destination, StartDir, CrateId(<<"a">>, ""))

\* the names of the files and directories of the package
FileNames == {"lib.rs", "main.rs", "test.rs", "bench.rs", "readme.md"}

\* what the walk may come across: files in the start directory and in its
\* subdirectory sub, and sub itself
Entries ==
    {StartDir \o <<n>> : n \in FileNames}
    \cup {StartDir \o <<"sub", n>> : n \in FileNames}
    \cup {StartDir \o <<"sub">>}

\* the walks: at most MaxFiles entries, none twice, in any order
Walks ==
    {t \in SeqsUpTo(Entries, MaxFiles) :
        \A i, j \in 1..Len(t) : t[i] = t[j] => i = j}

\* the filters: find_crates' |_| true, and two that reject some names
Filters ==
    {FileNames, FileNames \ {"lib.rs"}, {"lib.rs", "main.rs", "readme.md"}}

\* a call of find_crates_with_filter, before anything is built; a call
\* that failed is the last one
FindCrates ==
    /\ run.kind \in {"none", "ok"}
    /\ run.calls < MaxCalls
    /\ run.builds = 0
    /\ LET out == find_crates_with_filter(self, env.tree, env.filter) IN
          /\ self' = out.self
          /\ run' = [run EXCEPT !.op = "find_crates_with_filter",
                                !.kind = out.kind,
                                !.raised = out.raised,
                                !.calls = @ + 1,
                                !.ret = <<>>]
    /\ UNCHANGED <<env, pfxVars, srcVars>>

\* a PkgSrc fresh from PkgSrc::new, a tree that does not change and a filter
InitCrates ==
    /\ self = ThePkgSrc
    /\ env \in {[NoEnv EXCEPT !.tree = t, !.filter = f] :
                  t \in Walks, f \in Filters}
    /\ run = NoRun
    /\ args = NoArgs
    /\ fs = NoFs
    /\ res = NoRes
    /\ origPath = <<>>
    /\ components = <<>>
    /\ remaining = <<>>
    /\ yielded = <<>>
    /\ exhausted = TRUE

NextCrates == FindCrates

SpecCrates == InitCrates /\ [][NextCrates]_vars

(***************************************************************************)
(* Claims about PkgSrc::find_crates_with_filter                            *)
(***************************************************************************)
\* the files of the crates of a list
Files(cs) == {cs[i].file : i \in 1..Len(cs)}

\* the entries of the walk named name that the filter accepts, as paths
\* from the start directory
Matching(name) ==
    {SubSeq(p, Len(StartDir) + 1, Len(p)) :
        p \in {q \in Range(env.tree) : Last(q) = name /\ name \in env.filter}}

\* C13: after find_crates_with_filter on a fresh PkgSrc, libs holds exactly
\* the walked entries named lib.rs that the filter accepts, mains those
\* named main.rs, tests those named test.rs and benchs those named
\* bench.rs, each once; an entry of another name, or one the filter
\* rejects, is in no list and no entry is in two; no crate has flags or
\* cfgs; what the lists hold does not depend on the order of the walk.
C13_Partition ==
    (run.op = "find_crates_with_filter" /\ run.calls = 1) =>
      /\ Files(self.libs) = Matching("lib.rs")
      /\ Files(self.mains) = Matching("main.rs")
      /\ Files(self.tests) = Matching("test.rs")
      /\ Files(self.benchs) = Matching("bench.rs")
      /\ Len(self.libs) = Cardinality(Matching("lib.rs"))
      /\ Len(self.mains) = Cardinality(Matching("main.rs"))
      /\ Len(self.tests) = Cardinality(Matching("test.rs"))
      /\ Len(self.benchs) = Cardinality(Matching("bench.rs"))
      /\ \A l \in {self.libs, self.mains, self.tests, self.benchs} :
            \A i \in 1..Len(l) : l[i].flags = <<>> /\ l[i].cfgs = <<>>
      /\ Len(self.libs) + Len(self.mains) + Len(self.tests) + Len(self.benchs)
            = Cardinality(Files(self.libs) \cup Files(self.mains)
                          \cup Files(self.tests) \cup Files(self.benchs))

\* the walk came across sub/lib.rs, then lib.rs, then a test.rs that the
\* filter rejects
C13_Witness ==
    /\ run.op = "find_crates_with_filter" /\ run.calls = 1
    /\ Len(env.tree) = 3
    /\ env.tree[1] = StartDir \o <<"sub", "lib.rs">>
    /\ env.tree[2] = StartDir \o <<"lib.rs">>
    /\ Last(env.tree[3]) = "test.rs" /\ "test.rs" \notin env.filter
    /\ Len(self.libs) = 2 /\ self.tests = <<>>

\* C14: a second find_crates_with_filter on the same PkgSrc, the tree and
\* the filter being the same, leaves the four lists as the first one left
\* them.
C14_Step ==
    ( /\ run.op = "find_crates_with_filter" /\ run.kind = "ok"
      /\ run'.op = "find_crates_with_filter" /\ run'.calls = run.calls + 1
      /\ env' = env )
    => /\ self'.libs = self.libs
       /\ self'.mains = self.mains
       /\ self'.tests = self.tests
       /\ self'.benchs = self.benchs
C14_SecondRunSameLists == [][C14_Step]_vars

\* C15: find_crates_with_filter raises missing_pkg_files, with the id of
\* the package, exactly when the four lists are empty after the walk; a
\* first call on a tree without any lib.rs, main.rs, test.rs or bench.rs
\* raises it, a call on a tree with one of them that the filter accepts
\* does not.
C15_RaisesIffNoCrates ==
    run.op = "find_crates_with_filter" =>
      LET known == {"lib.rs", "main.rs", "test.rs", "bench.rs"}
          names == {Last(p) : p \in Range(env.tree)}
          raises == (run.kind = "missing_pkg_files")
      IN  /\ raises <=> Len(self.libs) + Len(self.mains)
                          + Len(self.tests) + Len(self.benchs) = 0
          /\ raises => run.raised = self.id
          /\ ~raises => run.kind = "ok"
          /\ (run.calls = 1 /\ names \cap known = {}) => raises
          /\ (names \cap known \cap env.filter # {}) => ~raises

\* the tree has a readme.md, a subdirectory and a readme.md in it, nothing
\* else, and the call raised
C15_Witness ==
    /\ run.op = "find_crates_with_filter"
    /\ run.kind = "missing_pkg_files"
    /\ Range(env.tree) = {StartDir \o <<"readme.md">>, StartDir \o <<"sub">>,
                          StartDir \o <<"sub", "readme.md">>}

(***************************************************************************)
(* PkgSrc::build_workspace, PkgSrc::declare_inputs, PkgSrc::build_crates   *)
(* and PkgSrc::build                                                       *)
(***************************************************************************)
\* build_workspace: where the temporary files go
build_workspaceMutant(ps) == ps.source_workspace
build_workspace(ps) ==
    IF ps.build_in_destination THEN ps.destination_workspace
    ELSE ps.source_workspace

\* the file p has changed in the way attr says since the start
Changed(world, p, attr) == <<p, attr>> \in world

\* digest_file_with_date: a digest of the contents and the modification time
digest_file_with_date(world, p) ==
    <<"contents+date", Changed(world, p, "contents"), Changed(world, p, "date")>>

\* digest_only_date: a digest of the modification time
digest_only_date(world, p) == <<"date", Changed(world, p, "date")>>

\* crate_tag: the name of the workcache function that builds the crate
crate_tag(p) == display(p)

\* one step of a build, as its trace records it
BEv(op, path, data) == [op |-> op, path |-> path, data |-> data]

\* prep.declare_input("file", path, digest_file_with_date(&path))
DeclaredInputMutant(world, path) ==
    <<"file", display(path), digest_only_date(world, path)>>
DeclaredInput(world, path) ==
    <<"file", display(path), digest_file_with_date(world, path)>>

\* the kinds of input the closure of build_crates has a digest for
KnownKindMutant(kind) == TRUE
KnownKind(kind) == kind \in {"file", "binary"}

\* the digest the closure registers an input of a known kind with
DiscoverDigest(world, kind, p) ==
    IF kind = "file" THEN digest_file_with_date(world, PathNew(p))
    ELSE digest_only_date(world, PathNew(p))

\* for &(ref kind, ref p) in inputs.iter(), from the i-th input on: the
\* inputs registered, the steps taken, and whether every kind was known
RECURSIVE DiscoverInputs(_, _, _, _)
DiscoverInputs(world, path, inputs, i) ==
    IF i > Len(inputs) THEN [ok |-> TRUE, found |-> {}, log |-> <<>>]
    ELSE LET kind == inputs[i][1]
             p == inputs[i][2]
         IN  IF ~KnownKind(kind)
             THEN [ok |-> FALSE, found |-> {},
                   log |-> <<BEv("fail", path, <<kind>>)>>]
             ELSE LET d == <<kind, p, DiscoverDigest(world, kind, p)>>
                      rest == DiscoverInputs(world, path, inputs, i + 1)
                  IN  [ok |-> rest.ok, found |-> {d} \cup rest.found,
                       log |-> <<BEv("discover_input", path, d)>> \o rest.log]

\* the workcache: a discovered input of a recorded run is fresh when its
\* digest is still the recorded one
Fresh(world, d) == d[3] = DiscoverDigest(world, d[1], d[2])

\* the workcache: the recorded runs of the function tag with these
\* declared inputs whose discovered inputs are all fresh
CacheLookup(db, tag, declared, world) ==
    {e \in db : /\ e.tag = tag
                /\ e.declared = declared
                /\ \A d \in e.discovered : Fresh(world, d)}

\* what compile_crate does, as the world decides: it returns an output
\* file or none
CompileOutcomes == {"some", "none"}

\* result.to_str() of what compile_crate returned for the crate at path
CompileResult(o, path) ==
    IF o = "some" THEN <<"Some">> \o display(path) \o <<".out">> ELSE <<"None">>

\* what compile_crate writes into the map it is handed: the crate it
\* compiled, when it made an output
CompileWrites(o, path) ==
    IF o = "some" THEN {<<display(path), "compiled">>} ELSE {}

\* deps once a crate is done: compile_crate was handed
\* &mut (sub_deps.clone()), a clone of the clone of deps the closure owns,
\* and what it wrote went with that clone
DepsAfterCrateMutant(deps, written) == written
DepsAfterCrate(deps, written) == deps

\* the body of the loop of build_crates for one crate: with_prep, the
\* declared input and exec, which runs the closure unless the workcache
\* has a fresh recorded run; st is the database, the trace and whether the
\* task has failed
BuildCrate(ps, st, crate, cfgs, what, inputs, o, world) ==
    LET path == join(ps.start_dir, crate.file)
        tag == crate_tag(path)
        crate_cfgs == crate.cfgs \o cfgs
        declared == {DeclaredInput(world, path)}
        hits == CacheLookup(st.db, tag, declared, world)
        head == <<BEv("with_prep", path, tag),
                  BEv("declare_input", path, DeclaredInput(world, path))>>
        strs == [k \in 1..Len(inputs) |->
                   <<inputs[k][1], display(inputs[k][2])>>]
        found == DiscoverInputs(world, path, strs, 1)
        result == CompileResult(o, path)
        sub_deps == st.deps
        written == sub_deps \cup CompileWrites(o, path)
        call == BEv("compile_crate", path,
                    <<[id |-> ps.id, dir |-> build_workspace(ps),
                       flags |-> crate.flags, cfgs |-> crate_cfgs,
                       what |-> what, deps |-> sub_deps,
                       written |-> written]>>)
        entry == [tag |-> tag, declared |-> declared,
                  discovered |-> found.found, output |-> result]
    IN  IF hits # {}
        THEN [st EXCEPT !.log = @ \o head \o
                  <<BEv("cached", path, (CHOOSE e \in hits : TRUE).output)>>]
        ELSE IF ~found.ok
        THEN [st EXCEPT !.kind = "fail", !.log = @ \o head \o found.log]
        ELSE [st EXCEPT
                !.db = {e \in @ : ~(e.tag = tag /\ e.declared = declared)}
                       \cup {entry},
                !.deps = DepsAfterCrate(@, written),
                !.log = @ \o head \o found.log
                          \o <<call, BEv("exec", path, result)>>]

\* build_crates: for crate in crates.iter(), from the i-th crate on; a
\* failed task builds nothing more
RECURSIVE build_crates(_, _, _, _, _, _, _, _, _)
build_crates(ps, st, crates, cfgs, what, inputs, o, world, i) ==
    IF i > Len(crates) \/ st.kind = "fail" THEN st
    ELSE build_crates(ps,
                      BuildCrate(ps, st, crates[i], cfgs, what, inputs, o, world),
                      crates, cfgs, what, inputs, o, world, i + 1)

\* build: the libs, the mains, the tests, the benchs; then the map
build(ps, db, cfgs, inputs, o, world) ==
    LET s0 == [db |-> db, log |-> <<>>, kind |-> "ok", deps |-> {}]
        s1 == build_crates(ps, s0, ps.libs, cfgs, "Lib", inputs, o, world, 1)
        s2 == build_crates(ps, s1, ps.mains, cfgs, "Main", inputs, o, world, 1)
        s3 == build_crates(ps, s2, ps.tests, cfgs, "Test", inputs, o, world, 1)
        s4 == build_crates(ps, s3, ps.benchs, cfgs, "Bench", inputs, o, world, 1)
    IN  [kind |-> s4.kind, db |-> s4.db, log |-> s4.log, deps |-> s4.deps]

\* declare_inputs: every crate file of the four lists, declared as a file
declare_inputs(ps, world) ==
    LET to_do == ps.libs \o ps.mains \o ps.tests \o ps.benchs IN
    [k \in 1..Len(to_do) |->
       DeclaredInput(world, join(ps.start_dir, to_do[k].file))]

\* a file the caller hands to build as an input to discover
Dep == <<"/", "ws", "lib", "libdep.so">>

\* the inputs_to_discover of a call of build
InputLists ==
    {<<>>, <<<<"file", Dep>>>>, <<<<"binary", Dep>>>>,
     <<<<"binary", Dep>>, <<"other", Dep>>>>}

\* the cfgs of a call of build
CfgLists == {<<"debug">>}

\* what may change between two builds: the contents of a crate file, the
\* contents of the input, the modification time of the input
Touches ==
    {<<StartDir \o <<"lib.rs">>, "contents">>, <<Dep, "contents">>,
     <<Dep, "date">>}

\* the packages that are built: the flag of the PkgSrc and the walk of its
\* start directory
BuildPackages ==
    {<<FALSE, <<StartDir \o <<"lib.rs">>>>>>,
     <<TRUE, <<StartDir \o <<"main.rs">>, StartDir \o <<"lib.rs">>>>>>}

\* a call of build; a task that failed calls nothing more
Build ==
    /\ run.kind \in {"none", "ok"}
    /\ run.builds < MaxBuilds
    /\ \E cfgs \in CfgLists, inputs \in InputLists, o \in CompileOutcomes :
          LET out == build(self, run.db, cfgs, inputs, o, env.world) IN
          run' = [run EXCEPT
                    !.op = "build", !.kind = out.kind, !.builds = @ + 1,
                    !.db = out.db, !.touched = FALSE, !.ret = out.deps,
                    !.before = run.last,
                    !.last = [kind |-> out.kind, cfgs |-> cfgs,
                              inputs |-> inputs, log |-> out.log,
                              deps |-> out.deps, db |-> run.db,
                              world |-> env.world]]
    /\ UNCHANGED <<self, env, pfxVars, srcVars>>

\* a call of declare_inputs
DeclareInputs ==
    /\ run.kind \in {"none", "ok"}
    /\ run' = [run EXCEPT !.op = "declare_inputs", !.kind = "ok",
                          !.ret = declare_inputs(self, env.world)]
    /\ UNCHANGED <<self, env, pfxVars, srcVars>>

\* a call of build_workspace
BuildWorkspace ==
    /\ run.kind \in {"none", "ok"}
    /\ run' = [run EXCEPT !.op = "build_workspace", !.kind = "ok",
                          !.ret = build_workspace(self)]
    /\ UNCHANGED <<self, env, pfxVars, srcVars>>

\* between two builds the contents or the modification time of a file
\* changes
Touch ==
    /\ run.kind = "ok"
    /\ 0 < run.builds /\ run.builds < MaxBuilds
    /\ ~run.touched
    /\ \E t \in Touches :
          /\ t \notin env.world
          /\ env' = [env EXCEPT !.world = @ \cup {t}]
    /\ run' = [run EXCEPT !.op = "touch", !.touched = TRUE, !.ret = <<>>]
    /\ UNCHANGED <<self, pfxVars, srcVars>>

\* a PkgSrc fresh from PkgSrc::new and its tree
InitBuild ==
    /\ \E p \in BuildPackages :
          /\ self = [ThePkgSrc EXCEPT !.build_in_destination = p[1]]
          /\ env = [NoEnv EXCEPT !.tree = p[2], !.filter = FileNames]
    /\ run = NoRun
    /\ args = NoArgs
    /\ fs = NoFs
    /\ res = NoRes
    /\ origPath = <<>>
    /\ components = <<>>
    /\ remaining = <<>>
    /\ yielded = <<>>
    /\ exhausted = TRUE

NextBuild == FindCrates \/ Build \/ DeclareInputs \/ BuildWorkspace \/ Touch

SpecBuild == InitBuild /\ [][NextBuild]_vars

(***************************************************************************)
(* Claims about PkgSrc::build and the methods of a PkgSrc                  *)
(***************************************************************************)
\* the positions of the steps named op for the crate at path in the trace
\* of a build
BSteps(log, op, path) ==
    {i \in 1..Len(log) : log[i].op = op /\ log[i].path = path}

\* the crates a build opened a workcache scope for
Prepped(log) == {log[i].path : i \in {j \in 1..Len(log) : log[j].op = "with_prep"}}

\* C16: when build is called again and, for a crate, neither the crate
\* file nor an input discovered for it has changed its digest since the
\* call before (contents or date for a file, date for a binary), the
\* second call does not run compile_crate for the crate and gets the output
\* recorded for it; when one of them has changed, compile_crate runs again.
\* A build that starts with an empty database compiles each crate once.
C16_CacheSkip ==
    LET now == run.last
        was == run.before
        diff == now.world \ was.world
        fileChanged(p) == \E a \in {"contents", "date"} : <<p, a>> \in diff
        dateChanged(p) == <<p, "date">> \in diff
    IN  /\ (now.kind = "ok" /\ now.db = {}) =>
              \A p \in Prepped(now.log) :
                 Cardinality(BSteps(now.log, "compile_crate", p)) = 1
        /\ (was.kind = "ok" /\ now.kind = "ok") =>
              \A p \in Prepped(was.log) \cap Prepped(now.log) :
                 LET recorded ==
                       {e \in now.db :
                          /\ e.tag = display(p)
                          /\ e.declared =
                               {<<"file", display(p),
                                  digest_file_with_date(was.world, p)>>}}
                     same(e) ==
                       /\ ~fileChanged(p)
                       /\ \A d \in e.discovered :
                            IF d[1] = "file" THEN ~fileChanged(PathNew(d[2]))
                            ELSE ~dateChanged(PathNew(d[2]))
                 IN  /\ recorded # {}
                     /\ \A e \in recorded :
                          IF same(e)
                          THEN /\ BSteps(now.log, "compile_crate", p) = {}
                               /\ BSteps(now.log, "cached", p) # {}
                               /\ \A i \in BSteps(now.log, "cached", p) :
                                     now.log[i].data = e.output
                          ELSE Cardinality(BSteps(now.log, "compile_crate", p)) = 1

\* between two builds the contents of lib.rs changed: the second build
\* compiled lib.rs again and took main.rs, for which a binary input had
\* been discovered, from the workcache
C16_Witness ==
    /\ run.last.kind = "ok" /\ run.before.kind = "ok"
    /\ run.last.world \ run.before.world
          = {<<StartDir \o <<"lib.rs">>, "contents">>}
    /\ BSteps(run.last.log, "compile_crate", StartDir \o <<"lib.rs">>) # {}
    /\ BSteps(run.last.log, "cached", StartDir \o <<"main.rs">>) # {}
    /\ BSteps(run.before.log, "discover_input", StartDir \o <<"main.rs">>) # {}

\* the inputs of a build whose kind is neither file nor binary
BadKinds(inputs) ==
    {k \in 1..Len(inputs) : inputs[k][1] \notin {"file", "binary"}}

\* every input a build registered has the digest of its kind: contents and
\* date for a file, the date alone for a binary
DigestsByKind(b) ==
    \A i \in 1..Len(b.log) :
       b.log[i].op = "discover_input" =>
         LET d == b.log[i].data
             p == PathNew(d[2])
             date == <<p, "date">> \in b.world
             contents == <<p, "contents">> \in b.world
         IN  /\ d[1] \in {"file", "binary"}
             /\ d[1] = "file" => d[3] = <<"contents+date", contents, date>>
             /\ d[1] = "binary" => d[3] = <<"date", date>>

\* C17 as stated: a build that is handed an input whose kind is neither
\* file nor binary fails, and compile_crate is not called; an input of kind
\* file is registered with a digest of contents and date, one of kind
\* binary with a digest of the date.
C17_BadKindFatal ==
    LET now == run.last IN
    /\ (now.kind # "none" /\ BadKinds(now.inputs) # {}) =>
          /\ now.kind = "fail"
          /\ \A i \in 1..Len(now.log) : now.log[i].op # "compile_crate"
    /\ DigestsByKind(now)

\* C17, amended: the kinds are looked at in the closure handed to exec, for
\* the crate whose closure runs.  When the closure of a crate runs and an
\* input has a kind that is neither file nor binary, the build fails there:
\* the inputs before it have been registered, compile_crate is not called
\* for the crate and no later crate is built.  A crate the workcache has a
\* fresh recorded run for is not looked at, and a build of no crates, or of
\* crates that are all fresh, returns whatever the kinds.  The digests are
\* as stated.
C17_BadKindFatalInClosure ==
    LET now == run.last
        log == now.log
        bad == BadKinds(now.inputs)
        first == CHOOSE k \in bad : \A j \in bad : k <= j
        preps == {i \in 1..Len(log) : log[i].op = "with_prep"}
        fails == {i \in 1..Len(log) : log[i].op = "fail"}
    IN  /\ DigestsByKind(now)
        /\ now.kind = "fail" <=> fails # {}
        /\ now.kind \in {"none", "ok", "fail"}
        /\ bad = {} => now.kind # "fail"
        /\ bad # {} =>
              /\ \A i \in 1..Len(log) : log[i].op # "compile_crate"
              /\ \A i \in preps :
                    log[i + 2].op # "cached" =>
                      /\ now.kind = "fail"
                      /\ \A j \in preps : j <= i
                      /\ Len(log) = i + 1 + first
                      /\ log[Len(log)].op = "fail"
                      /\ log[Len(log)].path = log[i].path
                      /\ log[Len(log)].data = <<now.inputs[first][1]>>
                      /\ \A k \in 1..(first - 1) :
                            /\ log[i + 1 + k].op = "discover_input"
                            /\ log[i + 1 + k].data[1] = now.inputs[k][1]
              /\ (\A i \in preps : log[i + 2].op = "cached") => now.kind = "ok"

\* a build with a binary input and then one of another kind: the binary was
\* registered, the build failed and nothing was compiled
C17_Witness ==
    /\ run.op = "build" /\ run.last.kind = "fail"
    /\ Len(run.last.inputs) = 2
    /\ \E i \in 1..Len(run.last.log) :
          /\ run.last.log[i].op = "discover_input"
          /\ run.last.log[i].data[1] = "binary"
    /\ run.last.log[Len(run.last.log)].op = "fail"
    /\ run.before.kind = "ok"

\* the four lists of crates of a PkgSrc
CrateSets == {"libs", "mains", "tests", "benchs"}

\* C18: no operation on a PkgSrc changes its build_in_destination,
\* source_workspace, destination_workspace, start_dir or id;
\* find_crates_with_filter leaves what the four lists held at their heads,
\* and build, build_workspace and declare_inputs leave the lists as they
\* were.
C18_Step ==
    /\ self'.build_in_destination = self.build_in_destination
    /\ self'.source_workspace = self.source_workspace
    /\ self'.destination_workspace = self.destination_workspace
    /\ self'.start_dir = self.start_dir
    /\ self'.id = self.id
    /\ \A set \in CrateSets : IsPrefix(self[set], self'[set])
    /\ run'.op \in {"build", "build_workspace", "declare_inputs", "touch"} =>
          \A set \in CrateSets : self'[set] = self[set]

C18_Frame == [][C18_Step]_vars

\* a PkgSrc whose crates were found twice and built, and then asked for its
\* build workspace: the second search appended to the lists
C18_Witness ==
    /\ run.op = "build_workspace"
    /\ run.calls = 2 /\ run.builds = 1
    /\ Len(self.libs) = 2
    /\ self.start_dir = StartDir /\ self.id = ThePkgSrc.id

\* C19: the id of the PkgSrc that PkgSrc::new returns is the id the call was
\* given, also when the PkgSrc comes from the resolution of a prefix.
C19_IdIsTheArgument ==
    (res.op = "new" /\ res.kind = "ok") => res.ps.id = res.id

\* C20: a fetch of a package whose path has fewer than two segments into a
\* directory that holds no checkout of it returns nothing, and does nothing
\* else: no clone, no directory made, nothing renamed, no failure, the file
\* system as it was.  The checkout is looked for first: when the directory
\* holds one the fetch returns the directory, whatever the path.
C20_Step ==
    (res'.op = "fetch_git" /\ Len(res'.id.path) < 2) =>
      LET local == res'.local
          log == res'.log
      IN  IF <<local, res'.id>> \in fs.repos
          THEN /\ res'.ret = Some(local)
               /\ Steps(log, "git_clone_url") = {}
               /\ fs' = fs
          ELSE /\ res'.ret = None
               /\ res'.kind = "ok"
               /\ \A i \in 1..Len(log) :
                     /\ log[i].op \in {"fetch_git", "fetch_ret"}
                     /\ log[i].arg = local
               /\ fs' = fs
C20_NoUrlNoFetch == [][C20_Step]_vars

\* a fetch of the package a, which no directory holds a checkout of,
\* returned nothing
C20_Witness ==
    /\ res.op = "fetch_git" /\ Len(res.id.path) = 1
    /\ <<res.local, res.id>> \notin fs.repos
    /\ res.ret = None
    /\ Steps(res.log, "fetch_ret") # {}

(***************************************************************************)
(* PkgSrc::build on a PkgSrc whose four lists its owner has filled         *)
(***************************************************************************)
\* the crate push_crate makes of the file name under the start directory
UnitOf(name) ==
    push_crate(<<>>, Len(path_components(StartDir)), StartDir \o name)[1]

\* a crate with cfgs of its own: the fields of Crate and of PkgSrc are
\* public, and build_crates reads crate.cfgs
UnitWithCfgs(name, cfgs) == [UnitOf(name) EXCEPT !.cfgs = cfgs]

\* the PkgSrcs that are built: one crate in each list; two libs and a test
\* with a cfg; a main that was found twice and a bench with a cfg; nothing
OrderPackages ==
    {[ThePkgSrc EXCEPT !.libs = <<UnitOf(<<"lib.rs">>)>>,
                       !.mains = <<UnitOf(<<"main.rs">>)>>,
                       !.tests = <<UnitOf(<<"test.rs">>)>>,
                       !.benchs = <<UnitOf(<<"bench.rs">>)>>],
     [ThePkgSrc EXCEPT !.libs = <<UnitOf(<<"lib.rs">>),
                                  UnitOf(<<"sub", "lib.rs">>)>>,
                       !.tests = <<UnitWithCfgs(<<"test.rs">>, <<"test">>)>>],
     [ThePkgSrc EXCEPT !.mains = <<UnitOf(<<"main.rs">>),
                                   UnitOf(<<"main.rs">>)>>,
                       !.benchs = <<UnitWithCfgs(<<"bench.rs">>, <<"bench">>)>>],
     ThePkgSrc}

\* a PkgSrc with its lists filled, either flag, and nothing built yet
InitOrder ==
    /\ \E p \in OrderPackages, flag \in BOOLEAN :
          self = [p EXCEPT !.build_in_destination = flag]
    /\ env = NoEnv
    /\ run = NoRun
    /\ args = NoArgs
    /\ fs = NoFs
    /\ res = NoRes
    /\ origPath = <<>>
    /\ components = <<>>
    /\ remaining = <<>>
    /\ yielded = <<>>
    /\ exhausted = TRUE

\* calls of build, with changes to the files between them
NextOrder == Build \/ Touch

SpecOrder == InitOrder /\ [][NextOrder]_vars

\* the crates of a list, each with the output type of the list
Tagged(cs, what) == [k \in 1..Len(cs) |-> [crate |-> cs[k], what |-> what]]

\* the crates of a PkgSrc in the order libs, mains, tests, benchs
UnitsInOrder(ps) ==
    Tagged(ps.libs, "Lib") \o Tagged(ps.mains, "Main")
      \o Tagged(ps.tests, "Test") \o Tagged(ps.benchs, "Bench")

\* the steps of a trace that open a cache scope, in order
Scopes(log) ==
    LET F[i \in 0..Len(log)] ==
          IF i = 0 THEN <<>>
          ELSE IF log[i].op = "with_prep" THEN Append(F[i - 1], i)
          ELSE F[i - 1]
    IN  F[Len(log)]

\* C21: a build opens one cache scope for each crate of the four lists, in
\* the order libs, mains, tests, benchs and within a list in list order (a
\* build that fails stops there); every call of compile_crate is for the
\* crate of its scope, with the output type of the crate's list, the
\* crate's cfgs followed by the caller's, and the destination workspace
\* when build_in_destination is set, the source workspace otherwise.
C21_OrderAndArguments ==
    run.op = "build" =>
      \A log \in {run.last.log}, units \in {UnitsInOrder(self)} :
      \A scopes \in {Scopes(log)} :
        /\ Len(scopes) <= Len(units)
        /\ run.last.kind = "ok" => Len(scopes) = Len(units)
        /\ run.last.kind = "fail" => Len(scopes) >= 1
        /\ \A k \in 1..Len(scopes) :
              log[scopes[k]].path = self.start_dir \o units[k].crate.file
        /\ \A i \in 1..Len(log) :
              log[i].op = "compile_crate" =>
                \E k \in 1..Len(scopes) :
                   /\ scopes[k] < i
                   /\ k < Len(scopes) => i < scopes[k + 1]
                   /\ log[i].path = log[scopes[k]].path
                   /\ log[i].data[1].what = units[k].what
                   /\ log[i].data[1].cfgs = units[k].crate.cfgs \o run.last.cfgs
                   /\ log[i].data[1].dir =
                        (IF self.build_in_destination
                         THEN self.destination_workspace
                         ELSE self.source_workspace)
                   /\ log[i].data[1].id = self.id

\* a build of two libs and a test with a cfg, into the destination
\* workspace, that compiled all three
C21_Witness ==
    /\ run.op = "build" /\ run.last.kind = "ok"
    /\ self.build_in_destination
    /\ Len(self.libs) = 2 /\ Len(self.tests) = 1
    /\ Cardinality({i \in 1..Len(run.last.log) :
                       run.last.log[i].op = "compile_crate"}) = 3
    /\ \E i \in 1..Len(run.last.log) :
          /\ run.last.log[i].op = "compile_crate"
          /\ run.last.log[i].data[1].cfgs = <<"test", "debug">>

\* C22: the map that build returns is empty, whatever the crates, the
\* inputs and the cache, and whatever compile_crate wrote into the map it
\* was handed; every call of compile_crate is handed an empty map.
C22_DepsEmpty ==
    run.op = "build" =>
      /\ run.ret = {}
      /\ run.last.deps = {}
      /\ \A i \in 1..Len(run.last.log) :
            run.last.log[i].op = "compile_crate" =>
              run.last.log[i].data[1].deps = {}

\* a build of four crates in which compile_crate wrote into its map for
\* each of them
C22_Witness ==
    /\ run.op = "build" /\ run.last.kind = "ok"
    /\ run.ret = {}
    /\ Cardinality({i \in 1..Len(run.last.log) :
                       /\ run.last.log[i].op = "compile_crate"
                       /\ run.last.log[i].data[1].written # {}}) = 4

\* C23: with the RUST_PATH hack a call of PkgSrc::new fetches nothing, at
\* any depth of the resolution of prefixes: fetch_git is not called, so
\* nothing is cloned, made, renamed or made read-only and the file system
\* is as it was.  A call that finds no candidate and no prefix asks for the
\* working directory next, and only after that makes the lookup of the
\* hack.
C23_Step ==
    (res'.op = "new" /\ res'.hack) =>
      \A log \in {res'.log} :
        /\ \A i \in 1..Len(log) :
              log[i].op \in {"PkgSrc::new", "getcwd",
                             "find_dir_using_rust_path_hack"}
        /\ fs' = fs
        /\ res'.leaf # "fetch" /\ res'.via # "fetch"
        /\ \A i \in Steps(log, "getcwd") :
              /\ i = 1 \/ log[i - 1].op = "PkgSrc::new"
              /\ \A j \in 1..(i - 1) : log[j].op = "PkgSrc::new"
        /\ \A i \in Steps(log, "find_dir_using_rust_path_hack") :
              i > 1 /\ log[i - 1].op = "getcwd"
        /\ (res'.kind = "ok" /\ res'.leaf = "candidate")
              <=> Steps(log, "getcwd") = {}
C23_HackNeverFetches == [][C23_Step]_vars

\* with the hack, a call for a package with a URL resolved a prefix, whose
\* call found no candidate, nothing in the working directory, and then the
\* directory of the lookup
C23_Witness ==
    /\ res.op = "new" /\ res.hack /\ res.kind = "ok"
    /\ Len(res.id.path) >= 2
    /\ res.via = "nested" /\ res.leaf = "rust_path_hack"
    /\ Steps(res.log, "getcwd") # {}

\* the file systems on which a call for id nests: the directory of the
\* prefix of n segments under the build directory, or none, and a working
\* directory with or without a crate file
NestedFs(id) ==
    {[dirs |-> {Cwd} \cup
               {target_build_dir(Workspace) \o SubSeq(id.path, 1, k) :
                  k \in {n} \ {0}},
      crates |-> cs, repos |-> {}] :
        n \in 0..(Len(id.path) - 1), cs \in {{}, {Cwd}}}

\* one call of PkgSrc::new for a package of up to MaxDepth segments
InitNested ==
    /\ args \in {Args(id, FALSE, <<>>) : id \in DeepIds}
    /\ fs \in NestedFs(args.id)
    /\ res = NoRes
    /\ origPath = <<>>
    /\ components = <<>>
    /\ remaining = <<>>
    /\ yielded = <<>>
    /\ exhausted = TRUE
    /\ self = NoPkgSrc
    /\ env = NoEnv
    /\ run = NoRun

NextNested == Resolve

SpecNested == InitNested /\ [][NextNested]_vars

\* the packages of the recursive calls of a call of PkgSrc::new, outermost
\* first, after the package of the call itself
CallChain(r) ==
    LET calls == Steps(r.log, "PkgSrc::new")
        F[i \in 0..Len(r.log)] ==
          IF i = 0 THEN <<r.id.path>>
          ELSE IF i \in calls THEN Append(F[i - 1], r.log[i].arg)
          ELSE F[i - 1]
    IN  F[Len(r.log)]

\* each recursive call is for a package that is a prefix of its caller's
\* with fewer segments and at least one, a call makes its recursive call
\* before anything else and makes no second one, and a call for a package
\* of N segments nests at most N - 1 deep
C24_Bounded ==
    res.op = "new" =>
      \A chain \in {CallChain(res)}, log \in {res.log} :
        /\ \A k \in 2..Len(chain) :
              /\ Len(chain[k]) < Len(chain[k - 1])
              /\ Len(chain[k]) >= 1
              /\ chain[k] = SubSeq(chain[k - 1], 1, Len(chain[k]))
        /\ Len(chain) - 1 <= Len(res.id.path) - 1
        /\ \A i \in Steps(log, "PkgSrc::new") :
              \A j \in 1..(i - 1) : log[j].op = "PkgSrc::new"

\* C24: every call of PkgSrc::new has an end, a PkgSrc or a failure, when
\* every call it makes of the file system, of fetch_git and of the lookup
\* returns; and its recursive calls are as C24_Bounded says.
C24_Terminates ==
    /\ res.op = "none" =>
          \A outs \in {PkgSrcNew(fs, Workspace, Destination, args.hack,
                                 args.id)} :
            /\ outs # {}
            /\ \A out \in outs : out.r.op = "new" /\ out.r.kind # "none"
    /\ C24_Bounded

\* a call for a/b/c/d/e resolved a/b/c/d, whose call resolved a/b/c, and
\* so on down to a: four calls deep
C24_Witness ==
    /\ res.op = "new" /\ Len(res.id.path) = 5
    /\ Cardinality(Steps(res.log, "PkgSrc::new")) = 4
    /\ res.kind = "ok"

=============================================================================
